---- MODULE Spec2Model ----
(***************************************************************************)
(* A model of src/src/main.rs: the chumsky-based parser of a small         *)
(* expression language (parser, lines 29-107), the tree-walking evaluator  *)
(* with its two scope stacks (eval, lines 109-180) and the driver (main,   *)
(* lines 182-204).                                                         *)
(*                                                                         *)
(* Source text is a sequence of one-character strings.  Names are          *)
(* sequences of characters.  The evaluator's recursion is unfolded into an *)
(* explicit stack of activation frames, one frame per call of eval.        *)
(***************************************************************************)
EXTENDS Integers, Sequences, FiniteSets, TLC

\* ------------------------------------------------------------------------
\* Bounds of the model
\* ------------------------------------------------------------------------

\* longest generated arithmetic source text, in characters
MaxLen == 5

\* deepest nesting of eval activations (unbounded recursion is cut here)
MaxDepth == 10

\* ------------------------------------------------------------------------
\* f64 values (main.rs:6, 113).  A value is sign * n / d with n, d naturals
\* in lowest terms; d = 0 with n = 1 is an infinity, n = d = 0 is NaN, and n = 0
\* with d = 1 is a signed zero.  Magnitudes are exact: rounding is not modelled.
\* ------------------------------------------------------------------------

RECURSIVE Gcd(_, _)
Gcd(a, b) ==
    IF b = 0 THEN a ELSE Gcd(b, a % b)

NaN ==
    [s |-> 1, n |-> 0, d |-> 0]

IsNaN(x) ==
    x.n = 0 /\ x.d = 0

IsInf(x) ==
    x.n # 0 /\ x.d = 0

Norm(s, n, d) ==
    IF d = 0 THEN (IF n = 0 THEN NaN ELSE [s |-> s, n |-> 1, d |-> 0])
    ELSE IF n = 0 THEN [s |-> s, n |-> 0, d |-> 1]
    ELSE LET g == Gcd(n, d) IN [s |-> s, n |-> n \div g, d |-> d \div g]

FNum(k) ==
    [s |-> 1, n |-> k, d |-> 1]

\* unary minus on f64 (main.rs:116)
FNeg(x) ==
    IF IsNaN(x) THEN x ELSE [x EXCEPT !.s = 0 - x.s]

\* f64 addition (main.rs:117)
FAdd(x, y) ==
    IF IsNaN(x) \/ IsNaN(y) THEN NaN
    ELSE IF IsInf(x) THEN (IF IsInf(y) /\ x.s # y.s THEN NaN ELSE x)
    ELSE IF IsInf(y) THEN y
    ELSE LET a == x.s * x.n * y.d + y.s * y.n * x.d
             d == x.d * y.d
         IN  IF a = 0
             THEN [s |-> IF x.s = -1 /\ y.s = -1 THEN -1 ELSE 1, n |-> 0, d |-> 1]
             ELSE IF a > 0 THEN Norm(1, a, d) ELSE Norm(-1, 0 - a, d)

\* f64 subtraction (main.rs:118)
FSub(x, y) ==
    FAdd(x, FNeg(y))

\* f64 multiplication (main.rs:119)
FMul(x, y) ==
    IF IsNaN(x) \/ IsNaN(y) THEN NaN
    ELSE Norm(x.s * y.s, x.n * y.n, x.d * y.d)

\* f64 division (main.rs:120): a zero divisor gives an infinity or NaN
FDiv(x, y) ==
    IF IsNaN(x) \/ IsNaN(y) THEN NaN
    ELSE Norm(x.s * y.s, x.n * y.d, x.d * y.n)

\* ------------------------------------------------------------------------
\* The syntax tree (main.rs:4-27)
\* ------------------------------------------------------------------------

Num(v) ==
    [k |-> "Num", v |-> v]

Var(name) ==
    [k |-> "Var", name |-> name]

Neg(a) ==
    [k |-> "Neg", a |-> a]

Add(a, b) ==
    [k |-> "Add", a |-> a, b |-> b]

Sub(a, b) ==
    [k |-> "Sub", a |-> a, b |-> b]

Mul(a, b) ==
    [k |-> "Mul", a |-> a, b |-> b]

Div(a, b) ==
    [k |-> "Div", a |-> a, b |-> b]

Call(name, args) ==
    [k |-> "Call", name |-> name, args |-> args]

Let(name, rhs, then) ==
    [k |-> "Let", name |-> name, rhs |-> rhs, then |-> then]

Fn(name, args, body, then) ==
    [k |-> "Fn", name |-> name, args |-> args, body |-> body, then |-> then]

BinKinds ==
    {"Add", "Sub", "Mul", "Div"}

\* ------------------------------------------------------------------------
\* Characters
\* ------------------------------------------------------------------------

Digits ==
    <<"0", "1", "2", "3", "4", "5", "6", "7", "8", "9">>

IsDigit(c) ==
    \E i \in 1..10 : Digits[i] = c

DigitVal(c) ==
    (CHOOSE i \in 1..10 : Digits[i] = c) - 1

\* the letters the generated programs use; text::ident accepts any alphabetic
IsLetter(c) ==
    c \in {"a", "b", "e", "f", "g", "l", "n", "t", "x", "y"}

\* char::is_whitespace, as used by padded()
IsWs(c) ==
    c \in {" ", "\t", "\n"}

\* ------------------------------------------------------------------------
\* Parser combinators (chumsky): a parser takes the text s and a position p
\* (index of the next character) and answers [ok, pos, val].  Alternatives
\* are ordered and rewind on failure; repetition is greedy.
\* ------------------------------------------------------------------------

Fail ==
    [ok |-> FALSE, pos |-> 0, val |-> <<>>]

Ok(p, v) ==
    [ok |-> TRUE, pos |-> p, val |-> v]

\* just(c): exactly the character c, no whitespace skipped
Just(c, s, p) ==
    p <= Len(s) /\ s[p] = c

RECURSIVE SkipWs(_, _)
\* the whitespace run that padded() consumes on either side of a parser
SkipWs(s, p) ==
    IF p <= Len(s) /\ IsWs(s[p]) THEN SkipWs(s, p + 1) ELSE p

RECURSIVE IdentEnd(_, _)
IdentEnd(s, p) ==
    IF p <= Len(s) /\ (IsLetter(s[p]) \/ IsDigit(s[p]) \/ s[p] = "_")
    THEN IdentEnd(s, p + 1) ELSE p

\* text::ident(): a letter or underscore, then letters, digits, underscores
TextIdent(s, p) ==
    IF p <= Len(s) /\ (IsLetter(s[p]) \/ s[p] = "_")
    THEN LET q == IdentEnd(s, p + 1) IN Ok(q, SubSeq(s, p, q - 1))
    ELSE Fail

\* .padded(), the trailing side: r is what the padded parser answered after
\* the leading whitespace was skipped
Padded(s, r) ==
    IF r.ok THEN Ok(SkipWs(s, r.pos), r.val) ELSE Fail

\* a.or(b): the first alternative that succeeds
OrElse(a, b) ==
    IF a.ok THEN a ELSE b

\* main.rs:30  let ident = text::ident().padded();
Ident(s, p) ==
    Padded(s, TextIdent(s, SkipWs(s, p)))

\* text::keyword(w): an identifier equal to w
KeywordIs(w, r) ==
    IF r.ok /\ r.val = w THEN r ELSE Fail

Keyword(w, s, p) ==
    KeywordIs(w, TextIdent(s, p))

RECURSIVE DigitsEnd(_, _)
DigitsEnd(s, p) ==
    IF p <= Len(s) /\ IsDigit(s[p]) THEN DigitsEnd(s, p + 1) ELSE p

RECURSIVE Decimal(_)
\* String::parse::<f64> on a run of decimal digits (main.rs:34)
Decimal(ds) ==
    IF ds = <<>> THEN 0
    ELSE 10 * Decimal(SubSeq(ds, 1, Len(ds) - 1)) + DigitVal(ds[Len(ds)])

\* text::int(10): a non-zero digit followed by digits, or a single zero
TextInt(s, p) ==
    IF p <= Len(s) /\ IsDigit(s[p])
    THEN IF s[p] # "0"
         THEN Ok(DigitsEnd(s, p + 1), SubSeq(s, p, DigitsEnd(s, p + 1) - 1))
         ELSE Ok(p + 1, <<"0">>)
    ELSE Fail

\* main.rs:34  .map(|s: String| Expr::Num(s.parse().unwrap()))
NumOf(r) ==
    IF r.ok THEN Ok(r.pos, Num(FNum(Decimal(r.val)))) ELSE Fail

\* main.rs:33-35  int: text::int(10) mapped to Expr::Num, padded
ParseInt(s, p) ==
    Padded(s, NumOf(TextInt(s, SkipWs(s, p))))

\* just(c) as a parser
JustP(c, s, p) ==
    IF Just(c, s, p) THEN Ok(p + 1, c) ELSE Fail

\* main.rs:51  let op = |c| just(c).padded();
Op(c, s, p) ==
    Padded(s, JustP(c, s, SkipWs(s, p)))

\* ------------------------------------------------------------------------
\* The expression grammar (main.rs:32-74).  Each step of a combinator chain
\* is an operator that takes the answer of the step before it.
\* ------------------------------------------------------------------------

RECURSIVE ParseExpr(_, _)
RECURSIVE ParseDecl(_, _)
RECURSIVE Minuses(_, _, _)
RECURSIVE ArgsRest(_, _, _)
RECURSIVE ProductRest(_, _, _)
RECURSIVE SumRest(_, _, _)
RECURSIVE Idents(_, _, _)

MinusesStep(s, p, n, r) ==
    IF r.ok THEN Minuses(s, r.pos, n + 1) ELSE [pos |-> p, n |-> n]

\* main.rs:53-54  op('-').repeated(): the position after the minuses, and
\* how many there were
Minuses(s, p, n) ==
    MinusesStep(s, p, n, Op("-", s, p))

RECURSIVE NegTimes(_, _)
\* main.rs:56  foldr(|_op, rhs| Expr::Neg(Box::new(rhs)))
NegTimes(n, e) ==
    IF n = 0 THEN e ELSE Neg(NegTimes(n - 1, e))

\* an item after a comma: kept, or the comma alone is a trailing one
ArgsItem(s, p, acc, e) ==
    IF e.ok THEN ArgsRest(s, e.pos, Append(acc, e.val)) ELSE Ok(p + 1, acc)

\* main.rs:40-41  the items after the first: a comma and an expression, any
\* number of times, then an optional trailing comma
ArgsRest(s, p, acc) ==
    IF Just(",", s, p) THEN ArgsItem(s, p, acc, ParseExpr(s, p + 1)) ELSE Ok(p, acc)

ArgsFirst(s, p, e) ==
    IF e.ok THEN ArgsRest(s, e.pos, <<e.val>>) ELSE Ok(p, <<>>)

\* main.rs:39-41  expr.separated_by(just(',')).allow_trailing()
ParseArgs(s, p) ==
    ArgsFirst(s, p, ParseExpr(s, p))

\* main.rs:42, 44  just(')') and .map(|(f, args)| Expr::Call(f, args))
CallClose(s, f, a) ==
    IF Just(")", s, a.pos) THEN Ok(a.pos + 1, Call(f, a.val)) ELSE Fail

\* main.rs:38-42  just('(') and the arguments, after the identifier
CallOpen(s, i) ==
    IF i.ok /\ Just("(", s, i.pos)
    THEN CallClose(s, i.val, ParseArgs(s, i.pos + 1))
    ELSE Fail

\* main.rs:37-44  call
ParseCall(s, p) ==
    CallOpen(s, Ident(s, p))

ParenClose(s, e) ==
    IF e.ok /\ Just(")", s, e.pos) THEN Ok(e.pos + 1, e.val) ELSE Fail

\* main.rs:47  expr.delimited_by(just('('), just(')'))
ParseParen(s, p) ==
    IF Just("(", s, p) THEN ParenClose(s, ParseExpr(s, p + 1)) ELSE Fail

\* main.rs:49  ident.map(Expr::Var)
VarOf(i) ==
    IF i.ok THEN Ok(i.pos, Var(i.val)) ELSE Fail

\* main.rs:46-49  atom = int.or(paren).or(call).or(ident.map(Expr::Var))
ParseAtom(s, p) ==
    OrElse(ParseInt(s, p),
           OrElse(ParseParen(s, p),
                  OrElse(ParseCall(s, p), VarOf(Ident(s, p)))))

FoldNeg(n, a) ==
    IF a.ok THEN Ok(a.pos, NegTimes(n, a.val)) ELSE Fail

UnaryAtom(s, m) ==
    FoldNeg(m.n, ParseAtom(s, m.pos))

\* main.rs:53-56  unary = op('-').repeated().then(atom).foldr(Neg)
ParseUnary(s, p) ==
    UnaryAtom(s, Minuses(s, p, 0))

\* main.rs:58-59  mul.or(div)
MulOrDiv(s, p) ==
    OrElse(Op("*", s, p), Op("/", s, p))

\* main.rs:60-61  add.or(sub)
AddOrSub(s, p) ==
    OrElse(Op("+", s, p), Op("-", s, p))

\* main.rs:58-61  the constructor an operator character maps to
BinNode(c, lhs, rhs) ==
    CASE c = "*" -> Mul(lhs, rhs)
      [] c = "/" -> Div(lhs, rhs)
      [] c = "+" -> Add(lhs, rhs)
      [] c = "-" -> Sub(lhs, rhs)

\* main.rs:66  foldl(|lhs, (op, rhs)| op(Box::new(lhs), Box::new(rhs)))
ProductFold(s, p, lhs, c, u) ==
    IF u.ok THEN ProductRest(s, u.pos, BinNode(c, lhs, u.val)) ELSE Ok(p, lhs)

ProductOp(s, p, lhs, o) ==
    IF o.ok THEN ProductFold(s, p, lhs, o.val, ParseUnary(s, o.pos)) ELSE Ok(p, lhs)

\* main.rs:65-66  mul.or(div).then(unary).repeated(), folded to the left
ProductRest(s, p, lhs) ==
    ProductOp(s, p, lhs, MulOrDiv(s, p))

ProductFirst(s, u) ==
    IF u.ok THEN ProductRest(s, u.pos, u.val) ELSE Fail

\* main.rs:63-66  product
ParseProduct(s, p) ==
    ProductFirst(s, ParseUnary(s, p))

\* SumFold folding to the right: a-b-c read as a-(b-c)
SumFoldRight(s, p, lhs, c, u) ==
    IF u.ok
    THEN LET r == SumRest(s, u.pos, u.val) IN Ok(r.pos, BinNode(c, lhs, r.val))
    ELSE Ok(p, lhs)

\* main.rs:71  foldl(|lhs, (op, rhs)| op(Box::new(lhs), Box::new(rhs)))
SumFold(s, p, lhs, c, u) ==
    IF u.ok THEN SumRest(s, u.pos, BinNode(c, lhs, u.val)) ELSE Ok(p, lhs)

SumOp(s, p, lhs, o) ==
    IF o.ok THEN SumFold(s, p, lhs, o.val, ParseProduct(s, o.pos)) ELSE Ok(p, lhs)

\* main.rs:70-71  add.or(sub).then(product).repeated(), folded to the left
SumRest(s, p, lhs) ==
    SumOp(s, p, lhs, AddOrSub(s, p))

SumFirst(s, u) ==
    IF u.ok THEN SumRest(s, u.pos, u.val) ELSE Fail

\* main.rs:68-73  sum
ParseSum(s, p) ==
    SumFirst(s, ParseProduct(s, p))

\* main.rs:32, 73  expr = recursive(|expr| ... sum)
ParseExpr(s, p) ==
    ParseSum(s, p)

\* ------------------------------------------------------------------------
\* The declaration grammar (main.rs:76-107)
\* ------------------------------------------------------------------------

KwLet ==
    <<"l", "e", "t">>

KwFn ==
    <<"f", "n">>

\* main.rs:82-87  .then(decl.clone()).map(.. Expr::Let ..)
LetThen(name, rhs, d) ==
    IF d.ok THEN Ok(d.pos, Let(name, rhs, d.val)) ELSE Fail

\* main.rs:81  .then_ignore(just(';'))
LetSemi(s, name, e) ==
    IF e.ok /\ Just(";", s, e.pos)
    THEN LetThen(name, e.val, ParseDecl(s, e.pos + 1))
    ELSE Fail

\* main.rs:79-80  .then_ignore(just('=')).then(expr.clone())
LetEq(s, i) ==
    IF i.ok /\ Just("=", s, i.pos) THEN LetSemi(s, i.val, ParseExpr(s, i.pos + 1)) ELSE Fail

\* main.rs:78  .ignore_then(ident)
LetName(s, k) ==
    IF k.ok THEN LetEq(s, Ident(s, k.pos)) ELSE Fail

\* main.rs:77-87  let
ParseLet(s, p) ==
    LetName(s, Keyword(KwLet, s, p))

IdentsStep(s, p, acc, i) ==
    IF i.ok THEN Idents(s, i.pos, Append(acc, i.val)) ELSE Ok(p, acc)

\* main.rs:91  ident.repeated()
Idents(s, p, acc) ==
    IdentsStep(s, p, acc, Ident(s, p))

\* main.rs:95-101  .then(decl).map(.. Expr::Fn ..)
FnThen(name, args, body, d) ==
    IF d.ok THEN Ok(d.pos, Fn(name, args, body, d.val)) ELSE Fail

\* main.rs:94  .then_ignore(just(';'))
FnSemi(s, name, args, e) ==
    IF e.ok /\ Just(";", s, e.pos)
    THEN FnThen(name, args, e.val, ParseDecl(s, e.pos + 1))
    ELSE Fail

\* main.rs:92-93  .then_ignore(just('=')).then(expr.clone())
FnEq(s, name, a) ==
    IF Just("=", s, a.pos) THEN FnSemi(s, name, a.val, ParseExpr(s, a.pos + 1)) ELSE Fail

\* main.rs:90-91  .ignore_then(ident).then(ident.repeated())
FnName(s, k) ==
    IF k.ok /\ Ident(s, k.pos).ok
    THEN FnEq(s, Ident(s, k.pos).val, Idents(s, Ident(s, k.pos).pos, <<>>))
    ELSE Fail

\* main.rs:89-101  fn
ParseFn(s, p) ==
    FnName(s, Keyword(KwFn, s, p))

\* main.rs:76, 103  decl = r#let.or(r#fn).or(expr).padded()
ParseDecl(s, p) ==
    Padded(s, OrElse(ParseLet(s, SkipWs(s, p)),
                     OrElse(ParseFn(s, SkipWs(s, p)), ParseExpr(s, SkipWs(s, p)))))

\* main.rs:106  .then_ignore(end())
AtEnd(s, d) ==
    IF d.ok /\ d.pos = Len(s) + 1 THEN d ELSE Fail

\* main.rs:29, 106  parser() = decl.then_ignore(end())
Parser(s) ==
    AtEnd(s, ParseDecl(s, 1))

\* ------------------------------------------------------------------------
\* State
\* ------------------------------------------------------------------------

VARIABLES
    src,     \* the text main reads (main.rs:183)
    base,    \* the same program written without optional whitespace (history)
    pc,      \* where main is: "parse", "eval", "done"
    vars,    \* the variable stack (main.rs:184): entries [name, val, by]
    fns,     \* the function stack (main.rs:185): entries [name, args, body]
    stack,   \* the activations of eval, outermost first
    ret,     \* the value the innermost finished activation hands to its caller
    out,     \* what main prints (main.rs:189-202)
    nextId   \* number of activations created so far (history)

vars_all == <<src, base, pc, vars, fns, stack, ret, out, nextId>>

NoRet ==
    [st |-> "none"]

\* Result::Ok(v), returned by the activation fr
RetOk(v, fr) ==
    [st |-> "ok", val |-> v, from |-> fr]

\* Result::Err(e), returned by the activation fr
RetErr(e, fr) ==
    [st |-> "err", err |-> e, from |-> fr]

\* main.rs:126  "Cannot find variable `{name}` in scope"
UndefinedVariable(name) ==
    [type |-> "UndefinedVariable", name |-> name]

\* main.rs:142  "Cannot find function `{}` in scope"
UndefinedFunction(name) ==
    [type |-> "UndefinedFunction", name |-> name]

\* main.rs:148-152  "Wrong number of arguments for function ..."
ArityMismatch(name, expected, found) ==
    [type |-> "ArityMismatch", name |-> name, expected |-> expected, found |-> found]

\* One activation of eval (main.rs:109-113).  e is the node, ph the point the
\* activation has reached, acc its locals (the left operand of a binary node,
\* args_evaled of a call), fn the function a call resolved to.  id, v0, f0 and
\* kids are history: the activation's number, the two stacks as they were when
\* it began, and the sub-evaluations it has started, each with its outcome st
\* ("run" until it returns) and the value or error it returned.
Frame(e, id, vs, fs) ==
    [e |-> e, ph |-> "start", acc |-> <<>>, fn |-> <<>>,
     id |-> id, v0 |-> vs, f0 |-> fs, kids |-> <<>>]

Top ==
    stack[Len(stack)]

Running ==
    pc = "eval" /\ stack # <<>>

\* the activation fr after the sub-evaluation it waited for has returned
Seen(fr) ==
    [fr EXCEPT !.kids[Len(fr.kids)] =
        [e |-> @.e, st |-> ret.st, res |-> IF ret.st = "ok" THEN ret.val ELSE ret.err]]

\* the activation fr (already moved to its next point) calls eval(child, vars, fns)
\* against the stacks vs and fs
Descend(fr, child, vs, fs) ==
    /\ Len(stack) < MaxDepth
    /\ stack' = Append(
           [stack EXCEPT ![Len(stack)] =
               [fr EXCEPT !.kids = Append(fr.kids, [e |-> child, st |-> "run", res |-> <<>>])]],
           Frame(child, nextId, vs, fs))
    /\ nextId' = nextId + 1
    /\ ret' = NoRet

\* the innermost activation returns r to its caller
Return(r) ==
    /\ stack' = SubSeq(stack, 1, Len(stack) - 1)
    /\ ret' = r
    /\ nextId' = nextId

\* LookupVar without the rev(): the oldest binding of the name wins
LookupVarOldest(vs, name) ==
    LET idx == {i \in DOMAIN vs : vs[i].name = name}
    IN  IF idx = {} THEN [found |-> FALSE]
        ELSE [found |-> TRUE, val |-> vs[CHOOSE i \in idx : \A k \in idx : i <= k].val]

RECURSIVE LookupVar(_, _)
\* main.rs:123  vars.iter().rev().find(|(var, _)| *var == name)
LookupVar(vs, name) ==
    IF vs = <<>> THEN [found |-> FALSE]
    ELSE IF vs[Len(vs)].name = name THEN [found |-> TRUE, val |-> vs[Len(vs)].val]
    ELSE LookupVar(SubSeq(vs, 1, Len(vs) - 1), name)

\* LookupFn without the rev(): the oldest definition of the name wins
LookupFnOldest(fs, name) ==
    LET idx == {i \in DOMAIN fs : fs[i].name = name}
    IN  IF idx = {} THEN [found |-> FALSE]
        ELSE [found |-> TRUE, fn |-> fs[CHOOSE i \in idx : \A k \in idx : i <= k]]

RECURSIVE LookupFn(_, _)
\* main.rs:139  fns.iter().rev().find(|(var, _, _)| *var == name)
LookupFn(fs, name) ==
    IF fs = <<>> THEN [found |-> FALSE]
    ELSE IF fs[Len(fs)].name = name THEN [found |-> TRUE, fn |-> fs[Len(fs)]]
    ELSE LookupFn(SubSeq(fs, 1, Len(fs) - 1), name)

\* Vec::pop (main.rs:134, 176): drops the last entry, if any
Pop(q) ==
    IF q = <<>> THEN q ELSE SubSeq(q, 1, Len(q) - 1)

\* Vec::truncate (main.rs:164): keeps the first n entries
Truncate(q, n) ==
    IF n >= Len(q) THEN q ELSE SubSeq(q, 1, n)

\* the f64 operation of a binary node (main.rs:117-120)
BinOp(k, x, y) ==
    CASE k = "Add" -> FAdd(x, y)
      [] k = "Sub" -> FSub(x, y)
      [] k = "Mul" -> FMul(x, y)
      [] k = "Div" -> FDiv(x, y)

\* ------------------------------------------------------------------------
\* eval (main.rs:109-180), one action per step of each match arm
\* ------------------------------------------------------------------------

\* main.rs:115  Expr::Num(x) => Ok(*x)
EvalNum ==
    /\ Running /\ Top.e.k = "Num"
    /\ Return(RetOk(Top.e.v, Top))
    /\ UNCHANGED <<src, base, pc, vars, fns, out>>

\* main.rs:122-128  Expr::Var
EvalVar ==
    /\ Running /\ Top.e.k = "Var"
    /\ LET r == LookupVar(vars, Top.e.name)
       IN  IF r.found
           THEN Return(RetOk(r.val, Top))
           ELSE Return(RetErr(UndefinedVariable(Top.e.name), Top))
    /\ UNCHANGED <<src, base, pc, vars, fns, out>>

\* main.rs:116  Expr::Neg(a): the call eval(a, vars, fns)
NegEnter ==
    /\ Running /\ Top.e.k = "Neg" /\ Top.ph = "start"
    /\ Descend([Top EXCEPT !.ph = "arg"], Top.e.a, vars, fns)
    /\ UNCHANGED <<src, base, pc, vars, fns, out>>

\* main.rs:116  Ok(-eval(a, vars, fns)?)
NegReturn ==
    /\ Running /\ Top.e.k = "Neg" /\ Top.ph = "arg" /\ ret.st # "none"
    /\ IF ret.st = "err"
       THEN Return(RetErr(ret.err, Seen(Top)))
       ELSE Return(RetOk(FNeg(ret.val), Seen(Top)))
    /\ UNCHANGED <<src, base, pc, vars, fns, out>>

\* main.rs:117-120  the left operand: eval(a, vars, fns)
BinLeft ==
    /\ Running /\ Top.e.k \in BinKinds /\ Top.ph = "start"
    /\ Descend([Top EXCEPT !.ph = "left"], Top.e.a, vars, fns)
    /\ UNCHANGED <<src, base, pc, vars, fns, out>>

\* BinRight with the ? on the left operand applied only after the right
\* operand has been evaluated
BinRightEager ==
    /\ Running /\ Top.e.k \in BinKinds /\ Top.ph = "left" /\ ret.st # "none"
    /\ Descend([Seen(Top) EXCEPT !.ph = "right",
                                 !.acc = <<IF ret.st = "ok" THEN ret.val ELSE NaN>>],
               Top.e.b, vars, fns)
    /\ UNCHANGED <<src, base, pc, vars, fns, out>>

\* main.rs:117-120  eval(a, ..)? then the right operand: eval(b, vars, fns)
BinRight ==
    /\ Running /\ Top.e.k \in BinKinds /\ Top.ph = "left" /\ ret.st # "none"
    /\ IF ret.st = "err"
       THEN Return(RetErr(ret.err, Seen(Top)))
       ELSE Descend([Seen(Top) EXCEPT !.ph = "right", !.acc = <<ret.val>>],
                    Top.e.b, vars, fns)
    /\ UNCHANGED <<src, base, pc, vars, fns, out>>

\* main.rs:117-120  eval(b, ..)? and the arithmetic
BinReturn ==
    /\ Running /\ Top.e.k \in BinKinds /\ Top.ph = "right" /\ ret.st # "none"
    /\ IF ret.st = "err"
       THEN Return(RetErr(ret.err, Seen(Top)))
       ELSE Return(RetOk(BinOp(Top.e.k, Top.acc[1], ret.val), Seen(Top)))
    /\ UNCHANGED <<src, base, pc, vars, fns, out>>

\* LetRhs with the name pushed before its value is evaluated
LetRhsEarly ==
    /\ Running /\ Top.e.k = "Let" /\ Top.ph = "start"
    /\ LET pushed == Append(vars, [name |-> Top.e.name, val |-> FNum(0), by |-> Top.id])
       IN  /\ vars' = pushed
           /\ Descend([Top EXCEPT !.ph = "rhs"], Top.e.rhs, pushed, fns)
    /\ UNCHANGED <<src, base, pc, fns, out>>

\* main.rs:131  let rhs = eval(rhs, vars, fns)
LetRhs ==
    /\ Running /\ Top.e.k = "Let" /\ Top.ph = "start"
    /\ Descend([Top EXCEPT !.ph = "rhs"], Top.e.rhs, vars, fns)
    /\ UNCHANGED <<src, base, pc, vars, fns, out>>

\* main.rs:131-133  the ? on rhs, vars.push((name, rhs)), eval(then, vars, fns)
LetBind ==
    /\ Running /\ Top.e.k = "Let" /\ Top.ph = "rhs" /\ ret.st # "none"
    /\ IF ret.st = "err"
       THEN /\ Return(RetErr(ret.err, Seen(Top)))
            /\ vars' = vars
       ELSE LET pushed == Append(vars, [name |-> Top.e.name, val |-> ret.val,
                                        by |-> Top.id])
            IN  /\ vars' = pushed
                /\ Descend([Seen(Top) EXCEPT !.ph = "then"], Top.e.then, pushed, fns)
    /\ UNCHANGED <<src, base, pc, fns, out>>

\* main.rs:134-135  vars.pop(); output
LetReturn ==
    /\ Running /\ Top.e.k = "Let" /\ Top.ph = "then" /\ ret.st # "none"
    /\ vars' = Pop(vars)
    /\ Return([ret EXCEPT !.from = Seen(Top)])
    /\ UNCHANGED <<src, base, pc, fns, out>>

\* main.rs:158-159  the pairs (name, value) that zip and map build
Pairs(names, vals, id) ==
    [i \in 1..Len(vals) |-> [name |-> names[i], val |-> vals[i], by |-> id]]

\* main.rs:162-163  vars.append(&mut args_evaled), which moves every pair out
\* of args_evaled and leaves it empty, then eval(body, vars, fns)
BindAndCall(fr, pairs) ==
    LET appended == vars \o pairs
    IN  /\ vars' = appended
        /\ Descend([fr EXCEPT !.ph = "body", !.acc = <<>>], fr.fn.body, appended, fns)

\* main.rs:139-160  function lookup, the arity check, and the first argument
CallEnter ==
    /\ Running /\ Top.e.k = "Call" /\ Top.ph = "start"
    /\ LET f == LookupFn(fns, Top.e.name)
       IN  IF ~f.found
           THEN /\ Return(RetErr(UndefinedFunction(Top.e.name), Top))
                /\ vars' = vars
           ELSE IF Len(f.fn.args) # Len(Top.e.args)
           THEN /\ Return(RetErr(ArityMismatch(Top.e.name, Len(f.fn.args),
                                               Len(Top.e.args)), Top))
                /\ vars' = vars
           ELSE IF Top.e.args = <<>>
           THEN BindAndCall([Top EXCEPT !.fn = f.fn], <<>>)
           ELSE /\ Descend([Top EXCEPT !.ph = "args", !.fn = f.fn],
                           Top.e.args[1], vars, fns)
                /\ vars' = vars
    /\ UNCHANGED <<src, base, pc, fns, out>>

\* CallArg binding each parameter as soon as its argument is evaluated
CallArgEager ==
    /\ Running /\ Top.e.k = "Call" /\ Top.ph = "args" /\ ret.st # "none"
    /\ IF ret.st = "err"
       THEN /\ Return(RetErr(ret.err, Seen(Top)))
            /\ vars' = vars
       ELSE LET vals == Append(Top.acc, ret.val)
                fr == [Seen(Top) EXCEPT !.acc = vals]
                pushed == Append(vars, [name |-> Top.fn.args[Len(vals)],
                                        val |-> ret.val, by |-> Top.id])
            IN  /\ vars' = pushed
                /\ IF Len(vals) < Len(Top.e.args)
                   THEN Descend(fr, Top.e.args[Len(vals) + 1], pushed, fns)
                   ELSE Descend([fr EXCEPT !.ph = "body", !.acc = <<>>],
                                fr.fn.body, pushed, fns)
    /\ UNCHANGED <<src, base, pc, fns, out>>

\* main.rs:155-163  one argument has been evaluated: the ? inside collect, the
\* next argument, and after the last one the append and the body
CallArg ==
    /\ Running /\ Top.e.k = "Call" /\ Top.ph = "args" /\ ret.st # "none"
    /\ IF ret.st = "err"
       THEN /\ Return(RetErr(ret.err, Seen(Top)))
            /\ vars' = vars
       ELSE LET vals == Append(Top.acc, ret.val)
                fr == [Seen(Top) EXCEPT !.acc = vals]
            IN  IF Len(vals) < Len(Top.e.args)
                THEN /\ Descend(fr, Top.e.args[Len(vals) + 1], vars, fns)
                     /\ vars' = vars
                ELSE BindAndCall(fr, Pairs(Top.fn.args, vals, Top.id))
    /\ UNCHANGED <<src, base, pc, fns, out>>

\* main.rs:164-165  vars.truncate(vars.len() - args_evaled.len()); output
CallReturn ==
    /\ Running /\ Top.e.k = "Call" /\ Top.ph = "body" /\ ret.st # "none"
    /\ vars' = Truncate(vars, Len(vars) - Len(Top.acc))
    /\ Return([ret EXCEPT !.from = Seen(Top)])
    /\ UNCHANGED <<src, base, pc, fns, out>>

\* main.rs:174-175  fns.push((name, args, body)); eval(then, vars, fns)
FnPush ==
    /\ Running /\ Top.e.k = "Fn" /\ Top.ph = "start"
    /\ LET pushed == Append(fns, [name |-> Top.e.name, args |-> Top.e.args,
                                  body |-> Top.e.body])
       IN  /\ fns' = pushed
           /\ Descend([Top EXCEPT !.ph = "then"], Top.e.then, vars, pushed)
    /\ UNCHANGED <<src, base, pc, vars, out>>

\* FnReturn with the pop skipped when the continuation failed
FnReturnOnSuccess ==
    /\ Running /\ Top.e.k = "Fn" /\ Top.ph = "then" /\ ret.st # "none"
    /\ fns' = IF ret.st = "ok" THEN Pop(fns) ELSE fns
    /\ Return([ret EXCEPT !.from = Seen(Top)])
    /\ UNCHANGED <<src, base, pc, vars, out>>

\* main.rs:176-177  fns.pop(); output
FnReturn ==
    /\ Running /\ Top.e.k = "Fn" /\ Top.ph = "then" /\ ret.st # "none"
    /\ fns' = Pop(fns)
    /\ Return([ret EXCEPT !.from = Seen(Top)])
    /\ UNCHANGED <<src, base, pc, vars, out>>

\* ------------------------------------------------------------------------
\* main (main.rs:182-204)
\* ------------------------------------------------------------------------

\* main.rs:187-188, 192  the match on the parser's answer r: eval(&ast, &mut
\* vars, &mut fns) on a tree, the reports on an error
Parsed(r) ==
    IF r.ok
    THEN /\ pc' = "eval"
         /\ stack' = <<Frame(r.val, nextId, vars, fns)>>
         /\ nextId' = nextId + 1
         /\ out' = [kind |-> "none", ast |-> r.val]
    ELSE /\ pc' = "done"
         /\ stack' = stack
         /\ nextId' = nextId
         /\ out' = [kind |-> "parse_error"]

\* main.rs:187  parser().parse(src.clone())
Parse ==
    /\ pc = "parse"
    /\ Parsed(Parser(src))
    /\ UNCHANGED <<src, base, vars, fns, ret>>

\* main.rs:188-191  the match on eval's result and the println
Finish ==
    /\ pc = "eval" /\ stack = <<>> /\ ret.st # "none"
    /\ pc' = "done"
    /\ out' = IF ret.st = "ok"
              THEN [kind |-> "eval", ast |-> out.ast, val |-> ret.val]
              ELSE [kind |-> "eval_error", ast |-> out.ast, err |-> ret.err]
    /\ UNCHANGED <<src, base, vars, fns, stack, ret, nextId>>

\* ------------------------------------------------------------------------
\* The programs main is run on.  A program is a sequence of tokens, a token
\* a sequence of characters; the text is the tokens joined, with one space
\* where two word tokens would otherwise run together.
\* ------------------------------------------------------------------------

\* most declarations in front of the tail of a generated program
MaxDecls == 2

IsWord(tok) ==
    IsLetter(tok[1]) \/ IsDigit(tok[1])

RECURSIVE JoinFrom(_, _, _, _)
\* the text of toks from token i on, with the whitespace w put in gap g
\* (gap g lies after token g; gap 0 is the start of the text; -1 is no gap)
JoinFrom(toks, i, g, w) ==
    IF i > Len(toks) THEN <<>>
    ELSE toks[i]
         \o (IF g = i THEN <<w>> ELSE <<>>)
         \o (IF i < Len(toks) /\ IsWord(toks[i]) /\ IsWord(toks[i + 1])
             THEN <<" ">> ELSE <<>>)
         \o JoinFrom(toks, i + 1, g, w)

JoinAt(toks, g, w) ==
    (IF g = 0 THEN <<w>> ELSE <<>>) \o JoinFrom(toks, 1, g, w)

Join(toks) ==
    JoinAt(toks, -1, " ")

A == <<"a">>
B == <<"b">>
F == <<"f">>
G == <<"g">>
X == <<"x">>
Y == <<"y">>
EQ == <<"=">>
SC == <<";">>
LP == <<"(">>
RP == <<")">>
CM == <<",">>
PL == <<"+">>
N1 == <<"1">>
N2 == <<"2">>
N3 == <<"3">>
N5 == <<"5">>
N10 == <<"1", "0">>

\* the declarations a generated program is built from
Decls ==
    { <<KwLet, X, EQ, N10, SC>>,                       \* let x = 10;
      <<KwLet, X, EQ, X, PL, N1, SC>>,                 \* let x = x + 1;
      <<KwLet, A, EQ, N5, SC>>,                        \* let a = 5;
      <<KwLet, Y, EQ, F, LP, N2, RP, SC>>,             \* let y = f(2);
      <<KwFn, F, A, EQ, A, SC>>,                       \* fn f a = a;
      <<KwFn, F, A, EQ, A, PL, X, SC>>,                \* fn f a = a + x;
      <<KwFn, F, A, B, EQ, A, PL, B, SC>>,             \* fn f a b = a + b;
      <<KwFn, F, A, A, EQ, A, SC>>,                    \* fn f a a = a;
      <<KwFn, F, A, EQ, F, LP, RP, SC>>,               \* fn f a = f();
      <<KwFn, G, EQ, F, LP, N1, RP, PL, A, SC>> }      \* fn g = f(1) + a;

\* the expressions a generated program ends in
Tails ==
    { <<X>>,                                           \* x
      <<F, LP, N1, RP>>,                               \* f(1)
      <<F, LP, N1, RP, PL, A>>,                        \* f(1) + a
      <<F, LP, N1, CM, A, RP>>,                        \* f(1, a)
      <<F, LP, N1, CM, N2, RP>>,                       \* f(1, 2)
      <<F, LP, X, CM, G, LP, RP, RP>>,                 \* f(x, g())
      <<G, LP, Y, RP>>,                                \* g(y)
      <<G, LP, RP, PL, Y>>,                            \* g() + y
      <<Y, PL, G, LP, RP>>,                            \* y + g()
      <<F, LP, F, LP, N1, RP, RP>> }                   \* f(f(1))

RECURSIVE Chains(_)
\* the token sequences of at most n declarations
Chains(n) ==
    IF n = 0 THEN {<<>>}
    ELSE {<<>>} \cup {d \o c : d \in Decls, c \in Chains(n - 1)}

\* fn f a = a; f(1) + a
ExLeak ==
    <<KwFn, F, A, EQ, A, SC, F, LP, N1, RP, PL, A>>

\* let x = 10; fn f a = a + x; f(1)
ExDynamic ==
    <<KwLet, X, EQ, N10, SC, KwFn, F, A, EQ, A, PL, X, SC, F, LP, N1, RP>>

\* fn f a b = a + b; f(2, 3)
ExAdd ==
    <<KwFn, F, A, B, EQ, A, PL, B, SC, F, LP, N2, CM, N3, RP>>

\* fn f a b = a + b; f(2)
ExArity ==
    <<KwFn, F, A, B, EQ, A, PL, B, SC, F, LP, N2, RP>>

\* fn f a b = a + b; f(1, a)
ExArgs ==
    <<KwFn, F, A, B, EQ, A, PL, B, SC, F, LP, N1, CM, A, RP>>

\* g(1, 2)
ExNoFn ==
    <<G, LP, N1, CM, N2, RP>>

\* g(y)
ExNoFnArg ==
    <<G, LP, Y, RP>>

\* let x = x; x
ExLetSelf ==
    <<KwLet, X, EQ, X, SC, X>>

\* let x = 1; let x = x + 1; x
ExLetShadow ==
    <<KwLet, X, EQ, N1, SC, KwLet, X, EQ, X, PL, N1, SC, X>>

\* fn f a = f(a); f(1)
ExLoop ==
    <<KwFn, F, A, EQ, F, LP, A, RP, SC, F, LP, N1, RP>>

\* let x = 10; let x = x + 1; fn f a = a + x; f(1)
ExShadowed ==
    <<KwLet, X, EQ, N10, SC, KwLet, X, EQ, X, PL, N1, SC,
      KwFn, F, A, EQ, A, PL, X, SC, F, LP, N1, RP>>

\* fn f a a = a; f(1, 2)
ExDup ==
    <<KwFn, F, A, A, EQ, A, SC, F, LP, N1, CM, N2, RP>>

Examples ==
    {ExLeak, ExDynamic, ExAdd, ExArity, ExArgs, ExNoFn, ExNoFnArg, ExLetSelf,
     ExLetShadow, ExLoop, ExShadowed, ExDup}

Programs ==
    {c \o tl : c \in Chains(MaxDecls), tl \in Tails} \cup Examples

\* programs that are also run with whitespace put between two tokens
Spaced ==
    { <<KwLet, X, EQ, LP, N1, RP, SC, X>>,             \* let x = (1); x
      <<KwLet, X, EQ, N1, SC, X>>,                     \* let x = 1; x
      <<KwFn, F, A, B, EQ, A, PL, B, SC, F, LP, N1, CM, LP, N2, RP, RP>>,
                                                       \* fn f a b = a + b; f(1, (2))
      <<LP, N1, PL, N2, RP, PL, N1>> }                 \* (1 + 2) + 1

WsChars ==
    {" ", "\t", "\n"}

\* the characters of the generated arithmetic texts
ArithChars ==
    {"0", "2", "+", "-", "*", "/", "(", ")"}

ArithTexts ==
    UNION {[1..n -> ArithChars] : n \in 1..MaxLen}

Init ==
    /\ \/ \E toks \in Programs :
             /\ src = Join(toks)
             /\ base = src
       \/ \E toks \in Spaced : \E g \in 0..Len(toks) : \E w \in WsChars :
             /\ src = JoinAt(toks, g, w)
             /\ base = Join(toks)
       \/ /\ src \in ArithTexts
          /\ base = src
    /\ pc = "parse"
    /\ vars = <<>>
    /\ fns = <<>>
    /\ stack = <<>>
    /\ ret = NoRet
    /\ out = [kind |-> "none"]
    /\ nextId = 0

Next ==
    \/ Parse
    \/ EvalNum
    \/ EvalVar
    \/ NegEnter
    \/ NegReturn
    \/ BinLeft
    \/ BinRight
    \/ BinReturn
    \/ LetRhs
    \/ LetBind
    \/ LetReturn
    \/ CallEnter
    \/ CallArg
    \/ CallReturn
    \/ FnPush
    \/ FnReturn
    \/ Finish

Spec ==
    Init /\ [][Next]_vars_all

\* ------------------------------------------------------------------------
\* Properties
\* ------------------------------------------------------------------------

\* the activation that has just returned, if any
Returned(fr) ==
    ret.st # "none" /\ ret.from = fr

\* every activation that is running or has just returned
Activations ==
    {stack[j] : j \in DOMAIN stack} \cup (IF ret.st = "none" THEN {} ELSE {ret.from})

Range(q) ==
    {q[i] : i \in DOMAIN q}

IsPrefix(q, r) ==
    Len(q) <= Len(r) /\ SubSeq(r, 1, Len(q)) = q

\* the entries of the variable stack pushed by activation id
PushedBy(id) ==
    {i \in DOMAIN vars : vars[i].by = id}

\* main has finished the program toks with the value v
Evaluates(toks, v) ==
    (pc = "done" /\ out.kind # "parse_error" /\ base = Join(toks))
        => (out.kind = "eval" /\ out.val = v)

\* main has finished the program toks with the evaluation error e
FailsWith(toks, e) ==
    (pc = "done" /\ out.kind # "parse_error" /\ base = Join(toks))
        => (out.kind = "eval_error" /\ out.err = e)

\* C1: when eval of a Call whose function was found with a matching arity
\* returns, with a value or with an error, the variable stack is as long as it
\* was when that eval began.
C1_CallRestoresVars ==
    \A fr \in Activations :
        (Returned(fr) /\ fr.e.k = "Call" /\ fr.ph # "start")
            => Len(vars) = Len(fr.v0)

\* C2: no binding outlives the node that introduced it: every entry of the
\* variable stack was pushed by a Let or Call activation that is still
\* evaluating its continuation or body; so `fn f a = a; f(1) + a` fails with
\* UndefinedVariable a.
C2_NoBindingOutlivesItsNode ==
    /\ \A i \in DOMAIN vars :
          \E j \in DOMAIN stack :
             stack[j].id = vars[i].by /\ stack[j].ph \in {"then", "body"}
    /\ FailsWith(ExLeak, UndefinedVariable(A))

\* C7: a program the parser accepts without optional whitespace is accepted,
\* and parses to the same tree, with whitespace put between two of its tokens.
C7_WhitespaceInsignificant ==
    (pc # "parse" /\ Parser(base).ok)
        => (out.kind # "parse_error" /\ out.ast = Parser(base).val)

\* the positions of the entries named name in the stack q
Named(q, name) ==
    {i \in DOMAIN q : q[i].name = name}

Max(S) ==
    CHOOSE m \in S : \A n \in S : n <= m

Newest(fr) ==
    fr.f0[Max(Named(fr.f0, fr.e.name))]

\* C4: a Call whose name resolves fails with ArityMismatch, carrying the
\* parameter count of the newest definition of that name and the argument
\* count, exactly when the two differ; then no argument has been evaluated and
\* neither stack has changed; a Call that goes on uses that newest definition.
C4_ArityMismatch ==
    \A fr \in Activations :
        (fr.e.k = "Call" /\ Named(fr.f0, fr.e.name) # {})
            => /\ (Returned(fr) /\ fr.ph = "start")
                    => /\ Len(Newest(fr).args) # Len(fr.e.args)
                       /\ ret.st = "err"
                       /\ ret.err = ArityMismatch(fr.e.name, Len(Newest(fr).args),
                                                  Len(fr.e.args))
                       /\ fr.kids = <<>>
                       /\ vars = fr.v0
                       /\ fns = fr.f0
               /\ fr.ph \in {"args", "body"}
                    => /\ Len(Newest(fr).args) = Len(fr.e.args)
                       /\ fr.fn = Newest(fr)

\* a Call has failed with ArityMismatch although an older definition of the
\* same name takes the number of arguments given
C4_Witness ==
    /\ ret.st = "err" /\ ret.err.type = "ArityMismatch"
    /\ ret.from.e.k = "Call" /\ ret.from.ph = "start"
    /\ \E i \in Named(ret.from.f0, ret.from.e.name) :
          Len(ret.from.f0[i].args) = Len(ret.from.e.args)

\* the FunctionDef activations whose continuation is being evaluated
FnActive(fr) ==
    fr.e.k = "Fn" /\ fr.ph = "then"

FnEntry(fr) ==
    [name |-> fr.e.name, args |-> fr.e.args, body |-> fr.e.body]

\* C5: the function stack holds exactly the entries of the FunctionDef nodes
\* whose continuation is being evaluated, in nesting order; a Call resolves to
\* the innermost of them with its name and fails with UndefinedFunction when
\* there is none; and when any eval returns the function stack is what it was
\* when that eval began.
C5_FunctionStack ==
    /\ LET active == SelectSeq(stack, FnActive)
       IN  /\ Len(fns) = Len(active)
           /\ \A i \in DOMAIN fns : fns[i] = FnEntry(active[i])
    /\ \A fr \in Activations :
          /\ Returned(fr) => fns = fr.f0
          /\ (fr.e.k = "Call" /\ fr.ph # "start")
                => \E j \in DOMAIN stack :
                      /\ FnActive(stack[j]) /\ stack[j].e.name = fr.e.name
                      /\ fr.fn = FnEntry(stack[j])
                      /\ \A k \in DOMAIN stack :
                            (k > j /\ FnActive(stack[k]) /\ stack[k].id < fr.id)
                                => stack[k].e.name # fr.e.name
          /\ (Returned(fr) /\ fr.e.k = "Call" /\ fr.ph = "start"
                /\ ret.err.type = "UndefinedFunction")
                => /\ ret.err = UndefinedFunction(fr.e.name)
                   /\ \A j \in DOMAIN stack :
                         FnActive(stack[j]) => stack[j].e.name # fr.e.name
          /\ (Returned(fr) /\ fr.e.k = "Call" /\ fr.ph = "start"
                /\ \A j \in DOMAIN stack :
                      FnActive(stack[j]) => stack[j].e.name # fr.e.name)
                => ret.err = UndefinedFunction(fr.e.name)

\* a call made from inside a function's own body has resolved to that function
C5_Witness ==
    \E i, j \in DOMAIN stack :
        /\ i < j
        /\ stack[i].e.k = "Call" /\ stack[i].ph = "body"
        /\ stack[j].e.k = "Call" /\ stack[j].ph = "body"
        /\ stack[j].e.name = stack[i].e.name
        /\ stack[j].fn = stack[i].fn
        /\ fns # <<>>

\* ------------------------------------------------------------------------
\* The reference reading of an arithmetic text: split at the last + or -
\* outside parentheses that follows an operand, else at the last * or /
\* outside parentheses, else take off a leading minus, else take off the
\* enclosing parentheses, else read the digits.
\* ------------------------------------------------------------------------

RECURSIVE DepthAt(_, _)
\* the number of parentheses open before position i of the text tx
DepthAt(tx, i) ==
    IF i <= 1 THEN 0
    ELSE DepthAt(tx, i - 1)
         + (IF tx[i - 1] = "(" THEN 1 ELSE IF tx[i - 1] = ")" THEN -1 ELSE 0)

\* the positions of the binary operators of the set ops outside parentheses
Splits(tx, ops) ==
    {i \in 2..Len(tx) :
        /\ tx[i] \in ops
        /\ DepthAt(tx, i) = 0
        /\ (IsDigit(tx[i - 1]) \/ tx[i - 1] = ")")}

RefApply(c, x, y) ==
    CASE c = "+" -> FAdd(x, y)
      [] c = "-" -> FSub(x, y)
      [] c = "*" -> FMul(x, y)
      [] c = "/" -> FDiv(x, y)

RECURSIVE RefValue(_)
RefValue(tx) ==
    IF Splits(tx, {"+", "-"}) # {}
    THEN LET i == Max(Splits(tx, {"+", "-"}))
         IN  RefApply(tx[i], RefValue(SubSeq(tx, 1, i - 1)),
                      RefValue(SubSeq(tx, i + 1, Len(tx))))
    ELSE IF Splits(tx, {"*", "/"}) # {}
    THEN LET i == Max(Splits(tx, {"*", "/"}))
         IN  RefApply(tx[i], RefValue(SubSeq(tx, 1, i - 1)),
                      RefValue(SubSeq(tx, i + 1, Len(tx))))
    ELSE IF tx[1] = "-" THEN FNeg(RefValue(SubSeq(tx, 2, Len(tx))))
    ELSE IF tx[1] = "(" THEN RefValue(SubSeq(tx, 2, Len(tx) - 1))
    ELSE FNum(Decimal(tx))

\* C6: an accepted text of numbers, parentheses, unary minus and + - * /
\* evaluates to the value of its reference reading: * and / bind tighter than
\* + and -, both associate to the left, a leading minus negates its operand.
C6_ArithmeticReading ==
    (pc = "done" /\ Range(src) \subseteq ArithChars /\ out.kind # "parse_error")
        => (out.kind = "eval" /\ out.val = RefValue(src))

\* 2-2/2 has been evaluated to 1 and not to 0
C6_Witness ==
    /\ pc = "done" /\ src = <<"2", "-", "2", "/", "2">>
    /\ out.kind = "eval" /\ out.val = FNum(1)

\* the sub-evaluations of a node, in the order eval starts them
Children(fr) ==
    CASE fr.e.k = "Neg" -> <<fr.e.a>>
      [] fr.e.k \in BinKinds -> <<fr.e.a, fr.e.b>>
      [] fr.e.k = "Let" -> <<fr.e.rhs, fr.e.then>>
      [] fr.e.k = "Fn" -> <<fr.e.then>>
      [] fr.e.k = "Call" ->
            IF fr.ph = "body" THEN fr.e.args \o <<fr.fn.body>> ELSE fr.e.args
      [] OTHER -> <<>>

\* C8: eval returns the first error met in evaluation order.  Every node
\* starts its sub-evaluations in order (left before right, arguments left to
\* right, then the body), starts one only after all earlier ones succeeded, and
\* returns a failed sub-evaluation's error unchanged; a Call looks the function
\* up, then checks the arity, before it evaluates any argument, so `g(y)` with
\* neither defined reports UndefinedFunction.
C8_FirstErrorWins ==
    /\ \A fr \in Activations :
          /\ Len(fr.kids) <= Len(Children(fr))
          /\ \A i \in DOMAIN fr.kids :
                /\ fr.kids[i].e = Children(fr)[i]
                /\ i < Len(fr.kids) => fr.kids[i].st = "ok"
          /\ (Returned(fr) /\ fr.kids # <<>>)
                => /\ fr.kids[Len(fr.kids)].st = ret.st
                   /\ ret.st = "err" => ret.err = fr.kids[Len(fr.kids)].res
          /\ (Returned(fr) /\ fr.e.k = "Call" /\ fr.ph = "start")
                => /\ fr.kids = <<>>
                   /\ ret.st = "err"
                   /\ ret.err.type = "ArityMismatch" => Named(fr.f0, fr.e.name) # {}
    /\ FailsWith(ExNoFnArg, UndefinedFunction(G))

\* a binary node has returned the error of its left operand without
\* evaluating its right operand
C8_Witness ==
    /\ ret.st = "err"
    /\ ret.from.e.k \in BinKinds
    /\ Len(ret.from.kids) = 1
    /\ ret.from.e.b.k = "Call"

\* C9: in a Call every argument is evaluated before any parameter is bound:
\* while the arguments are evaluated, and when one of them fails, the variable
\* stack holds no binding of that call; the body is entered with all of them;
\* so `fn f a b = a + b; f(1, a)` fails with UndefinedVariable a.
C9_ArgumentsBeforeBinding ==
    /\ \A fr \in Activations :
          fr.e.k = "Call"
              => /\ fr.ph \in {"start", "args"} => PushedBy(fr.id) = {}
                 /\ (fr.ph = "body" /\ ~Returned(fr))
                       => /\ Cardinality(PushedBy(fr.id)) = Len(fr.e.args)
                          /\ \A i \in 1..Len(fr.e.args) : fr.kids[i].st = "ok"
    /\ FailsWith(ExArgs, UndefinedVariable(A))

\* the second argument of a call has failed on the name of the call's first
\* parameter
C9_Witness ==
    /\ ret.st = "err" /\ ret.from.e.k = "Call" /\ ret.from.ph = "args"
    /\ Len(ret.from.kids) = 2
    /\ ret.err = UndefinedVariable(ret.from.fn.args[1])

\* C10: a LetBinding evaluates its value before it pushes its binding: the
\* binding is not on the stack while the value is evaluated; when the value
\* fails nothing is pushed or popped and the continuation is not evaluated;
\* the continuation is entered with the binding on top; so `let x = x; x`
\* fails with UndefinedVariable x and `let x = 1; let x = x + 1; x` is 2.
C10_LetValueFirst ==
    /\ \A fr \in Activations :
          fr.e.k = "Let"
              => /\ fr.ph \in {"start", "rhs"}
                    => /\ PushedBy(fr.id) = {}
                       /\ IsPrefix(fr.v0, vars)
                       /\ Len(fr.kids) <= 1
                 /\ (Returned(fr) /\ fr.ph = "rhs") => ret.st = "err"
    /\ \A j \in DOMAIN stack :
          (j < Len(stack) /\ stack[j].e.k = "Let" /\ stack[j].ph = "then")
              => LET b == stack[j + 1].v0
                 IN  /\ b # <<>>
                     /\ b[Len(b)] = [name |-> stack[j].e.name,
                                     val |-> stack[j].kids[1].res,
                                     by |-> stack[j].id]
    /\ FailsWith(ExLetSelf, UndefinedVariable(X))
    /\ Evaluates(ExLetShadow, FNum(2))

\* a LetBinding has returned the error of its value expression, which read
\* the name being bound
C10_Witness ==
    /\ ret.st = "err" /\ ret.from.e.k = "Let" /\ ret.from.ph = "rhs"
    /\ ret.err = UndefinedVariable(ret.from.e.name)

====
